---- MODULE Spec2Model ----
(***************************************************************************)
(* Model of the retrieval core of Jupiter_Money_chatbot:                   *)
(* JupiterVectorStore (src/vector_store.py): construction, load_data,      *)
(* create_embeddings, search, _save_index, _load_index, get_stats, over a  *)
(* persist directory shared by every instance.                             *)
(*                                                                         *)
(* Two specifications:                                                     *)
(*   Spec      every method call is one step (single caller);              *)
(*   SpecConc  create_embeddings advances one statement at a time, so that *)
(*             calls of another caller interleave with a running build.    *)
(***************************************************************************)
EXTENDS Integers, Sequences, FiniteSets, TLC

VARIABLES
    store,     \* the attributes of the JupiterVectorStore object of the process
    disk,      \* the persist directory: faiss_index.bin and metadata.json
    last,      \* the call that started or returned last: arguments and return
    persisted  \* history: the model and the chunk list of the build the persist
               \* directory holds complete (both files of one _save_index);
               \* None once a later _save_index left the two files torn

VARIABLES
    chunker,   \* a call of semantic_chunk_text: its arguments and its result
    scraper,   \* the JupiterScraper object: scraped_data, and prepared_data
    app        \* the chat app: st.session_state and the position of the script

\* what the calls of the vector store leave alone
others == <<chunker, scraper, app>>

vars == <<store, disk, last, persisted, chunker, scraper, app>>

---------------------------------------------------------------------------
(* Bounds of the model *)

\* largest top_k passed to search
MaxK == 3

---------------------------------------------------------------------------
(* Python values *)

\* Python's None, and a present value, as sequences of length 0 and 1
None == <<>>
Some(x) == <<x>>
IsSet(o) == o # None
Val(o) == o[1]

RECURSIVE SumSeq(_)
SumSeq(s) == IF s = <<>> THEN 0 ELSE s[1] + SumSeq(Tail(s))

Min2(a, b) == IF a <= b THEN a ELSE b

---------------------------------------------------------------------------
(* The chunk records of data/prepared_data.json and the files load_data    *)
(* may be pointed at                                                       *)

Chunk(id, url, ord, content) ==
    [id |-> id, url |-> url, title |-> url, chunk_id |-> ord, content |-> content]

cA == Chunk("u1_0", "u1", 0, 1)
cB == Chunk("u1_1", "u1", 1, 4)
cC == Chunk("u2_0", "u2", 0, 6)

AllChunks == {cA, cB, cC}

\* line 53: ids = [item['id'] for item in self.data]
IdsOf(data) == [p \in 1..Len(data) |-> data[p].id]

\* line 52: texts = [item['content'] for item in self.data]
TextsOf(data) == [p \in 1..Len(data) |-> data[p].content]

\* lines 97-101: the metadata search reports for a chunk record
MetadataOf(c) == [url |-> c.url, title |-> c.title, chunk_id |-> c.chunk_id]

\* the chunk an id names (ids are unique per chunk)
ChunkById(id) == CHOOSE c \in AllChunks : c.id = id

\* file path -> what open()/json.load() finds there
FilePaths == {"snapA", "snapB", "snapC", "empty", "garbled", "missing"}

FileContent(path) ==
    CASE path = "snapA" -> <<cA, cB>>
      [] path = "snapB" -> <<cB, cA, cC>>
      [] path = "snapC" -> <<cC>>
      [] OTHER          -> <<>>

---------------------------------------------------------------------------
(* The embedding provider: SentenceTransformer(model_name).encode          *)

Models == {"m1", "m2"}

\* get_sentence_embedding_dimension()
Dim(m) == IF m = "m1" THEN 1 ELSE 2

\* a text is identified with an integer; queries are texts too
Queries == {0, 7}

\* encode(text): a fixed-length vector, a deterministic function of the text
Encode(m, text) == IF m = "m1" THEN <<text>> ELSE <<text, text % 2>>

\* encode(texts): one vector per text
EncodeAll(m, texts) == [p \in 1..Len(texts) |-> Encode(m, texts[p])]

---------------------------------------------------------------------------
(* faiss.IndexFlatL2                                                       *)

IndexFlatL2(d) == [d |-> d, vecs |-> <<>>]

IndexAdd(ix, embs) == [ix EXCEPT !.vecs = @ \o embs]

ntotal(ix) == Len(ix.vecs)

\* squared L2 distance, as IndexFlatL2 reports it
L2(a, b) == SumSeq([j \in 1..Len(a) |-> (a[j] - b[j]) * (a[j] - b[j])])

\* p is a better hit than r: smaller distance, the lower position on a tie
Better(ix, qe, p, r) ==
    \/ L2(ix.vecs[p], qe) < L2(ix.vecs[r], qe)
    \/ L2(ix.vecs[p], qe) = L2(ix.vecs[r], qe) /\ p < r

\* the positions left, best first
RECURSIVE Ranked(_, _, _)
Ranked(ix, qe, left) ==
    IF left = {} THEN <<>>
    ELSE LET best == CHOOSE p \in left : \A r \in left \ {p} : Better(ix, qe, p, r)
         IN  <<best>> \o Ranked(ix, qe, left \ {best})

\* index.search(qe, kk): kk hits (0-based position, distance), best first,
\* padded with position -1 when the index holds fewer than kk vectors
FaissSearch(ix, qe, kk) ==
    LET r == Ranked(ix, qe, 1..ntotal(ix))
    IN  [j \in 1..kk |->
            IF j <= Len(r) THEN [idx |-> r[j] - 1, dist |-> L2(ix.vecs[r[j]], qe)]
            ELSE [idx |-> -1, dist |-> -1]]

\* index.search asserts the query's dimension and k > 0
FaissSearchRaises(ix, qe, kk) == Len(qe) # ix.d \/ kk <= 0

---------------------------------------------------------------------------
(* The persist directory: faiss_index.bin and metadata.json                *)

\* a file is absent, unreadable (truncated by a write that failed), or holds
\* what the last complete write put there
Absent == [st |-> "absent", val |-> None]
Corrupt == [st |-> "corrupt", val |-> None]
Holding(x) == [st |-> "valid", val |-> Some(x)]

\* os.path.exists
Exists(f) == f.st # "absent"

\* how a call of _save_index ends: every write completes, or one raises
\*   index_open   faiss.write_index cannot open faiss_index.bin
\*   index_write  faiss.write_index fails after truncating faiss_index.bin
\*   meta_open    open(metadata_path, 'w') raises
\*   meta_dump    json.dump raises after open() truncated metadata.json
SaveOutcomes == {"ok", "index_open", "index_write", "meta_open", "meta_dump"}

---------------------------------------------------------------------------
(* JupiterVectorStore                                                      *)

\* the object's attributes; pc, ids and embs are the position and the locals
\* of a running create_embeddings, old_index and old_id_map what the
\* attributes were when it started
Blank(m) ==
    [alive |-> FALSE, model |-> m, data |-> <<>>, index |-> None, id_map |-> <<>>,
     pc |-> "idle", ids |-> <<>>, embs |-> <<>>,
     old_index |-> None, old_id_map |-> <<>>]

\* __init__ up to the call of _load_index
NewStore(m) == [Blank(m) EXCEPT !.alive = TRUE]

\* _load_index: the attributes after it ran against the persist directory dk
LoadIndex(st, dk) ==
    IF Exists(dk.index_file) /\ Exists(dk.meta_file)
    THEN IF dk.index_file.st = "corrupt"
         THEN st                                    \* read_index raises
         ELSE LET st1 == [st EXCEPT !.index = Some(Val(dk.index_file.val))]
              IN  IF dk.meta_file.st = "corrupt"
                  THEN st1                          \* json.load raises
                  ELSE [st1 EXCEPT !.id_map = Val(dk.meta_file.val).id_map]
    ELSE st

\* what _load_index returns: True, False (an exception was caught) or None
LoadIndexReturn(dk) ==
    IF Exists(dk.index_file) /\ Exists(dk.meta_file)
    THEN IF dk.index_file.st = "corrupt" \/ dk.meta_file.st = "corrupt"
         THEN "False" ELSE "True"
    ELSE "None"

\* load_data(filepath): the attributes after the call
LoadData(st, path) ==
    IF path \in {"missing", "garbled"} THEN st
    ELSE [st EXCEPT !.data = FileContent(path)]

\* load_data returns True, returns False (FileNotFoundError) or raises
\* (json.load on a file that is not JSON)
LoadDataReturn(path) ==
    CASE path = "missing" -> "False"
      [] path = "garbled" -> "raises"
      [] OTHER            -> "True"

\* _save_index: the persist directory after the call
SaveIndex(st, dk, outcome) ==
    IF ~IsSet(st.index) THEN dk
    ELSE LET metadata == [id_map |-> st.id_map,
                          total_documents |-> Len(st.data),
                          embedding_dimension |-> Val(st.index).d]
             written == Holding(Val(st.index))
         IN  CASE outcome = "index_open"  -> dk
               [] outcome = "index_write" -> [dk EXCEPT !.index_file = Corrupt]
               [] outcome = "meta_open"   -> [dk EXCEPT !.index_file = written]
               [] outcome = "meta_dump"   ->
                      [dk EXCEPT !.index_file = written, !.meta_file = Corrupt]
               [] OTHER ->
                      [dk EXCEPT !.index_file = written, !.meta_file = Holding(metadata)]

\* create_embeddings, statement by statement -------------------------------

\* CE_Begin with the attributes reset ahead of the empty-data guard
CE_BeginReset(st) ==
    IF st.data = <<>> THEN [st EXCEPT !.index = None, !.id_map = <<>>]
    ELSE [st EXCEPT !.pc = "encode",
                    !.ids = IdsOf(st.data),
                    !.old_index = st.index, !.old_id_map = st.id_map]

\* lines 47-53: the empty-data guard, then texts and ids
CE_Begin(st) ==
    IF st.data = <<>> THEN st
    ELSE [st EXCEPT !.pc = "encode",
                    !.ids = IdsOf(st.data),
                    !.old_index = st.index, !.old_id_map = st.id_map]

\* what the except clause of create_embeddings leaves (lines 71-73)
CE_Abort(st) ==
    [st EXCEPT !.pc = "idle", !.ids = <<>>, !.embs = <<>>,
               !.old_index = None, !.old_id_map = <<>>]

\* CE_Encode with the new index allocated ahead of encode(texts)
CE_EncodeAllocFirst(st, enc_ok) ==
    IF enc_ok
    THEN [st EXCEPT !.pc = "alloc",
                    !.embs = EncodeAll(st.model, TextsOf(st.data))]
    ELSE CE_Abort([st EXCEPT !.index = Some(IndexFlatL2(Dim(st.model)))])

\* lines 56-57: encode(texts); it may raise
CE_Encode(st, enc_ok) ==
    IF enc_ok
    THEN [st EXCEPT !.pc = "alloc",
                    !.embs = EncodeAll(st.model, TextsOf(st.data))]
    ELSE CE_Abort(st)

\* CE_Alloc reusing an index of the right dimension that is already there
CE_AllocKeep(st) ==
    IF IsSet(st.index) /\ Val(st.index).d = Len(st.embs[1])
    THEN [st EXCEPT !.pc = "add"]
    ELSE [st EXCEPT !.pc = "add", !.index = Some(IndexFlatL2(Len(st.embs[1])))]

\* lines 60-61: self.index = faiss.IndexFlatL2(dimension)
CE_Alloc(st) ==
    [st EXCEPT !.pc = "add", !.index = Some(IndexFlatL2(Len(st.embs[1])))]

\* line 62: self.index.add(embeddings)
CE_Add(st) ==
    [st EXCEPT !.pc = "map", !.index = Some(IndexAdd(Val(st.index), st.embs))]

\* CE_Map adding the ids to those already there
CE_MapAppend(st) == [st EXCEPT !.pc = "save", !.id_map = @ \o st.ids]

\* line 63: self.id_map = ids
CE_Map(st) == [st EXCEPT !.pc = "save", !.id_map = st.ids]

\* lines 68-69: return True
CE_Return(st) == CE_Abort(st)

\* the whole call up to _save_index: pc is "save" when the build went through
\* and "idle" when the call returned False
CE_Build(st, enc_ok) ==
    LET s1 == CE_Begin(st)
    IN  IF s1.pc = "idle" THEN s1
        ELSE LET s2 == CE_Encode(s1, enc_ok)
             IN  IF s2.pc = "idle" THEN s2
                 ELSE CE_Map(CE_Add(CE_Alloc(s2)))

\* search -------------------------------------------------------------------

\* Relevance growing with the distance
RelevanceInverted(dist) == [num |-> dist, den |-> 1 + dist]

\* relevance_score = 1 / (1 + distance), kept as a fraction
Relevance(dist) == [num |-> 1, den |-> 1 + dist]

\* lines 90-92: the hits search keeps
Resolvable(st, hit) == ~(hit.idx = -1 \/ hit.idx >= Len(st.data))

\* lines 94-104: the result built for a hit
ResultOf(st, hit) ==
    LET item == st.data[hit.idx + 1]
    IN  [content |-> item.content,
         metadata |-> MetadataOf(item),
         distance |-> hit.dist,
         relevance_score |-> Relevance(hit.dist)]

\* KeptHits giving up at the first hit that does not resolve
KeptHitsStopAtStale(st, q, k, enc_ok) ==
    IF ~IsSet(st.index) THEN <<>>
    ELSE IF st.data = <<>> THEN <<>>
    ELSE IF ~enc_ok THEN <<>>
    ELSE LET qe == Encode(st.model, q)
             kk == Min2(k, Len(st.data))
             ix == Val(st.index)
         IN  IF FaissSearchRaises(ix, qe, kk) THEN <<>>
             ELSE LET hits == FaissSearch(ix, qe, kk)
                      stale == {j \in DOMAIN hits : ~Resolvable(st, hits[j])}
                  IN  SubSeq(hits, 1,
                             IF stale = {} THEN Len(hits)
                             ELSE (CHOOSE j \in stale : \A i \in stale : j <= i) - 1)

\* KeptHits with top_k clamped from below instead of from above
KeptHitsMaxClamp(st, q, k, enc_ok) ==
    IF ~IsSet(st.index) THEN <<>>
    ELSE IF st.data = <<>> THEN <<>>
    ELSE IF ~enc_ok THEN <<>>
    ELSE LET qe == Encode(st.model, q)
             kk == IF k >= Len(st.data) THEN k ELSE Len(st.data)
             ix == Val(st.index)
         IN  IF FaissSearchRaises(ix, qe, kk) THEN <<>>
             ELSE SelectSeq(FaissSearch(ix, qe, kk), LAMBDA h : Resolvable(st, h))

\* the hits of the index that search turns into results, in order; <<>> on
\* every path that returns []
KeptHits(st, q, k, enc_ok) ==
    IF ~IsSet(st.index) THEN <<>>
    ELSE IF st.data = <<>> THEN <<>>
    ELSE IF ~enc_ok THEN <<>>
    ELSE LET qe == Encode(st.model, q)
             kk == Min2(k, Len(st.data))
             ix == Val(st.index)
         IN  IF FaissSearchRaises(ix, qe, kk) THEN <<>>
             ELSE SelectSeq(FaissSearch(ix, qe, kk), LAMBDA h : Resolvable(st, h))

\* search(query, top_k)
Search(st, q, k, enc_ok) ==
    LET hits == KeptHits(st, q, k, enc_ok)
    IN  [j \in 1..Len(hits) |-> ResultOf(st, hits[j])]

\* whether the try block of search (lines 83-105) raised: encode failed, or
\* index.search rejected the query's dimension or k
SearchCaught(st, q, k, enc_ok) ==
    /\ IsSet(st.index)
    /\ st.data # <<>>
    /\ \/ ~enc_ok
       \/ FaissSearchRaises(Val(st.index), Encode(st.model, q), Min2(k, Len(st.data)))

\* SearchReturn letting the exception of the try block through
SearchReturnPropagates(st, q, k, enc_ok) ==
    IF SearchCaught(st, q, k, enc_ok) THEN "raises" ELSE "list"

\* what the caller of search gets: a list on every path, the except clause
\* (lines 107-109) prints the error and returns [] itself
SearchReturn(st, q, k, enc_ok) == "list"

\* get_stats
GetStats(st) ==
    [total_documents |-> Len(st.data),
     embedding_model |-> Dim(st.model),
     embeddings_exist |-> IsSet(st.index),
     embedding_dimensions |-> IF IsSet(st.index) THEN Some(Val(st.index).d) ELSE None,
     index_size |-> IF IsSet(st.index) THEN ntotal(Val(st.index)) ELSE 0]

\* AfterSave with the index dropped when a write raised
AfterSaveDrop(st, outcome) ==
    IF outcome = "ok" THEN st ELSE [st EXCEPT !.index = None, !.id_map = <<>>]

\* the attributes once _save_index returned: its except clause (lines
\* 131-133) only prints, whatever write raised
AfterSave(st, outcome) == st

---------------------------------------------------------------------------
(* The calls                                                               *)

Ks == 0..MaxK

Call(op) ==
    [op |-> op, ret |-> "None", results |-> <<>>, stats |-> None,
     q |-> 0, k |-> 0, enc_ok |-> TRUE, save |-> "none", path |-> "none",
     pc |-> "idle", caught |-> FALSE, response |-> None,
     fault |-> "none", prompt |-> <<>>]

Idle == store.alive /\ store.pc = "idle"

\* JupiterVectorStore(model_name=m): a fresh process constructs the object
Construct(m) ==
    /\ UNCHANGED others
    /\ store.pc = "idle"
    /\ store' = LoadIndex(NewStore(m), disk)
    /\ last' = [Call("__init__") EXCEPT !.ret = LoadIndexReturn(disk)]
    /\ UNCHANGED <<disk, persisted>>

\* load_data(path)
LoadDataCall(path) ==
    /\ UNCHANGED others
    /\ Idle
    /\ store' = LoadData(store, path)
    /\ last' = [Call("load_data") EXCEPT !.ret = LoadDataReturn(path), !.path = path]
    /\ UNCHANGED <<disk, persisted>>

\* search(q, top_k=k); the object may be in the middle of a build another
\* caller started
SearchCall(q, k, enc_ok) ==
    /\ UNCHANGED others
    /\ store.alive
    /\ last' = [Call("search") EXCEPT !.ret = SearchReturn(store, q, k, enc_ok),
                    !.q = q, !.k = k, !.enc_ok = enc_ok, !.pc = store.pc,
                    !.caught = SearchCaught(store, q, k, enc_ok),
                    !.results = Search(store, q, k, enc_ok)]
    /\ UNCHANGED <<store, disk, persisted>>

\* get_stats()
GetStatsCall ==
    /\ UNCHANGED others
    /\ store.alive
    /\ last' = [Call("get_stats") EXCEPT !.ret = "dict", !.pc = store.pc,
                    !.stats = Some(GetStats(store))]
    /\ UNCHANGED <<store, disk, persisted>>

\* what the persist directory holds complete after _save_index ended in
\* outcome, st being the attributes it saved
PersistedAfter(st, outcome) ==
    CASE outcome = "ok"         -> Some([model |-> st.model, data |-> st.data])
      [] outcome = "index_open" -> persisted
      [] OTHER                  -> None

\* create_embeddings(), as one step
CreateEmbeddings(enc_ok, outcome) ==
    /\ UNCHANGED others
    /\ Idle
    /\ LET s == CE_Build(store, enc_ok)
           built == s.pc = "save"
       IN  /\ built \/ outcome = "ok"           \* _save_index is not reached
           /\ store.data # <<>> \/ enc_ok       \* encode is not reached
           /\ store' = IF built THEN CE_Return(AfterSave(s, outcome)) ELSE s
           /\ disk' = IF built THEN SaveIndex(s, disk, outcome) ELSE disk
           /\ last' = [Call("create_embeddings") EXCEPT
                           !.ret = IF built THEN "True" ELSE "False",
                           !.enc_ok = enc_ok,
                           !.save = IF built THEN outcome ELSE "none"]
           /\ persisted' = IF built THEN PersistedAfter(s, outcome) ELSE persisted

\* no store constructed yet, an empty persist directory
StoreInit ==
    /\ store = Blank("m1")
    /\ disk = [index_file |-> Absent, meta_file |-> Absent]
    /\ last = Call("none")
    /\ persisted = None

\* no text chunked, nothing scraped, and the session state a new browser
\* session gets (app.py lines 92-107)
OthersInit ==
    /\ chunker = None
    /\ scraper = None
    /\ app = [pc |-> "top", event |-> [kind |-> "rerun", text |-> ""],
              outcome |-> "none",
              chat_history |-> <<>>, vector_store |-> FALSE, initialized |-> FALSE,
              question_submitted |-> FALSE, last_processed_question |-> "",
              current_question |-> None]

Init == StoreInit /\ OthersInit

Next ==
    \/ \E m \in Models : Construct(m)
    \/ \E path \in FilePaths : LoadDataCall(path)
    \/ \E enc_ok \in BOOLEAN, outcome \in SaveOutcomes : CreateEmbeddings(enc_ok, outcome)
    \/ \E q \in Queries, k \in Ks, enc_ok \in BOOLEAN : SearchCall(q, k, enc_ok)
    \/ GetStatsCall

Spec == Init /\ [][Next]_vars

---------------------------------------------------------------------------
(* create_embeddings one statement at a time: search and get_stats of      *)
(* another caller run between any two statements of a build                *)

CE_Done(ret, enc_ok, outcome) ==
    [Call("create_embeddings") EXCEPT !.ret = ret, !.enc_ok = enc_ok, !.save = outcome]

\* lines 47-53
BeginStep ==
    /\ UNCHANGED others
    /\ Idle
    /\ store' = CE_Begin(store)
    /\ last' = IF store'.pc = "idle" THEN CE_Done("False", TRUE, "none")
               ELSE [Call("create_embeddings") EXCEPT !.ret = "running"]
    /\ UNCHANGED <<disk, persisted>>

\* lines 56-57, and lines 71-73 when encode raises
EncodeStep(enc_ok) ==
    /\ UNCHANGED others
    /\ store.pc = "encode"
    /\ store' = CE_Encode(store, enc_ok)
    /\ last' = IF enc_ok THEN last ELSE CE_Done("False", FALSE, "none")
    /\ UNCHANGED <<disk, persisted>>

\* lines 60-61
AllocStep ==
    /\ UNCHANGED others
    /\ store.pc = "alloc"
    /\ store' = CE_Alloc(store)
    /\ UNCHANGED <<disk, last, persisted>>

\* line 62
AddStep ==
    /\ UNCHANGED others
    /\ store.pc = "add"
    /\ store' = CE_Add(store)
    /\ UNCHANGED <<disk, last, persisted>>

\* line 63
MapStep ==
    /\ UNCHANGED others
    /\ store.pc = "map"
    /\ store' = CE_Map(store)
    /\ UNCHANGED <<disk, last, persisted>>

\* lines 66-69
SaveStep(outcome) ==
    /\ UNCHANGED others
    /\ store.pc = "save"
    /\ store' = CE_Return(AfterSave(store, outcome))
    /\ disk' = SaveIndex(store, disk, outcome)
    /\ last' = CE_Done("True", TRUE, outcome)
    /\ persisted' = PersistedAfter(store, outcome)

NextConc ==
    \/ \E m \in Models : Construct(m)
    \/ \E path \in FilePaths : LoadDataCall(path)
    \/ BeginStep
    \/ \E enc_ok \in BOOLEAN : EncodeStep(enc_ok)
    \/ AllocStep
    \/ AddStep
    \/ MapStep
    \/ \E outcome \in SaveOutcomes : SaveStep(outcome)
    \/ \E q \in Queries : SearchCall(q, MaxK, TRUE)
    \/ GetStatsCall

SpecConc == Init /\ [][NextConc]_vars

---------------------------------------------------------------------------
(* Properties of the vector store                                          *)

BothValid == disk.index_file.st = "valid" /\ disk.meta_file.st = "valid"

\* C1 (round trip): a store constructed over the persist directory that holds
\* the complete build of an earlier store with the same embedding model
\* returns, for every query and every k, the results that earlier store
\* returned right after its create_embeddings.
C1_RoundTrip ==
    (last.op = "__init__" /\ IsSet(persisted) /\ store.model = Val(persisted).model)
    => LET built == CE_Return(CE_Build(
                       [NewStore(Val(persisted).model) EXCEPT
                            !.data = Val(persisted).data], TRUE))
       IN  \A q \in Queries, k \in Ks :
               Search(store, q, k, TRUE) = Search(built, q, k, TRUE)

\* C2 (results resolved through the manifest): every result search returns
\* for index position p has the content and the metadata of the chunk whose
\* id is id_map[p].
C2_ResolvedThroughManifest ==
    (last.op = "search" /\ last.pc = "idle" /\ store.pc = "idle")
    => LET hits == KeptHits(store, last.q, last.k, last.enc_ok)
       IN  \A j \in 1..Len(last.results) :
               LET p == hits[j].idx + 1
               IN  /\ p \in DOMAIN store.id_map
                   /\ last.results[j].content = ChunkById(store.id_map[p]).content
                   /\ last.results[j].metadata = MetadataOf(ChunkById(store.id_map[p]))

\* C3 (load reconstructs the mapping): when _load_index loads an index and
\* returns True, id_map holds one id per loaded vector, and id_map[p] is the
\* id of the chunk whose vector is at position p.
C3_LoadReconstructsMapping ==
    (last.op = "__init__" /\ last.ret = "True" /\ IsSet(store.index))
    => LET ix == Val(store.index)
       IN  /\ Len(store.id_map) = ntotal(ix)
           /\ \A p \in 1..ntotal(ix) :
                 \E m \in Models :
                     ix.vecs[p] = Encode(m, ChunkById(store.id_map[p]).content)

\* C4 (one-to-one): whenever the index is set, it holds as many vectors as
\* id_map holds ids and as data holds chunk records.
C4_OneToOne ==
    (store.alive /\ store.pc = "idle" /\ IsSet(store.index))
    => /\ ntotal(Val(store.index)) = Len(store.id_map)
       /\ ntotal(Val(store.index)) = Len(store.data)

\* C5 (absent or corrupt artifacts): unless both persisted files are present
\* and readable, construction leaves index unset and id_map empty.
C5_LoadLeavesUnset ==
    (last.op = "__init__" /\ ~BothValid)
    => (~IsSet(store.index) /\ store.id_map = <<>>)

\* C6 (atomic replacement): a search or get_stats that runs in the middle of
\* a build sees the prior index with the prior id_map, or the complete new
\* index with the new id_map.
C6_AtomicReplace ==
    (/\ last.op \in {"search", "get_stats"} /\ last.pc # "idle" /\ store.pc = last.pc
     /\ IsSet(store.old_index))
    => \/ store.index = store.old_index /\ store.id_map = store.old_id_map
       \/ /\ store.index = Some(IndexAdd(IndexFlatL2(Dim(store.model)),
                  EncodeAll(store.model, TextsOf(store.data))))
          /\ store.id_map = IdsOf(store.data)

\* C7 (provider failure aborts the build): a create_embeddings in which
\* encode raises returns False, leaves index and id_map as they were and
\* writes nothing to the persist directory.
C7_EncodeFailureAborts ==
    [][(last'.op = "create_embeddings" /\ ~last'.enc_ok)
       => /\ last'.ret = "False"
          /\ store'.index = store.index
          /\ store'.id_map = store.id_map
          /\ disk' = disk]_vars

\* a build failed on encode while an index of another chunk list was in
\* memory and on disk, and both are still there
C7_Witness ==
    /\ last.op = "create_embeddings" /\ ~last.enc_ok /\ last.ret = "False"
    /\ store.data # <<>>
    /\ IsSet(store.index) /\ store.id_map # IdsOf(store.data)
    /\ BothValid

\* C8 (empty chunk list): create_embeddings with no data loaded returns
\* False and leaves index, id_map and both persisted files unchanged.
C8_EmptyBuildFails ==
    [][(last'.op = "create_embeddings" /\ last'.ret # "running" /\ store.data = <<>>)
       => /\ last'.ret = "False"
          /\ store'.index = store.index
          /\ store'.id_map = store.id_map
          /\ disk' = disk]_vars

\* create_embeddings returned False on a store without data whose index had
\* been loaded from the persist directory
C8_Witness ==
    /\ last.op = "create_embeddings" /\ last.ret = "False"
    /\ store.data = <<>>
    /\ IsSet(store.index) /\ store.id_map # <<>>
    /\ BothValid

\* C9 (save failure keeps the index usable): after a create_embeddings whose
\* _save_index failed, every search returns what it returns on the store the
\* same build leaves when its save succeeds (the build reads only the model
\* and the data, which it leaves alone): min(k, number of chunks) results.
C9_SaveFailureKeepsIndex ==
    (last.op = "create_embeddings" /\ last.save \notin {"ok", "none"})
    => \A q \in Queries, k \in Ks :
           /\ Search(store, q, k, TRUE) =
                  Search(CE_Return(AfterSave(CE_Build(store, TRUE), "ok")), q, k, TRUE)
           /\ Len(Search(store, q, k, TRUE)) = Min2(k, Len(store.data))

\* the save of a build failed with nothing usable left on disk, and search
\* still answers from the index in memory
C9_Witness ==
    /\ last.op = "create_embeddings" /\ last.save \notin {"ok", "none"}
    /\ ~BothValid
    /\ \E q \in Queries : Len(Search(store, q, MaxK, TRUE)) = Len(store.data)
    /\ Len(store.data) > 1

\* C10 (k clamping): on a store whose index holds n >= 1 vectors of the
\* store's own embedding model, search(q, k) with k > n returns exactly n
\* results.
C10_KClamp ==
    (/\ last.op = "search" /\ last.pc = "idle" /\ store.pc = "idle" /\ last.enc_ok
     /\ IsSet(store.index)
     /\ Val(store.index).d = Dim(store.model)
     /\ ntotal(Val(store.index)) >= 1
     /\ last.k > ntotal(Val(store.index)))
    => Len(last.results) = ntotal(Val(store.index))

\* C11 (nothing to search): search returns the empty list, and returns it
\* as a list without raising, when the index is unset, when no document is
\* loaded, or when top_k is 0.
C11_EmptySearch ==
    (/\ last.op = "search"
     /\ \/ ~IsSet(store.index)
        \/ store.data = <<>>
        \/ last.k = 0)
    => /\ last.results = <<>>
       /\ last.ret = "list"

\* search(q, 0) on a store with documents loaded and an index of its own
\* model: index.search rejected k = 0, the except clause returned []
C11_Witness ==
    /\ last.op = "search" /\ last.k = 0 /\ last.enc_ok /\ last.caught
    /\ IsSet(store.index) /\ Val(store.index).d = Dim(store.model)
    /\ Len(store.data) > 1 /\ ntotal(Val(store.index)) > 1
    /\ last.results = <<>>

\* C12 (best first): in the list search returns, every relevance_score is
\* 1 / (1 + distance), and from each result to the next the distance does
\* not decrease and the relevance_score does not increase, also when hits
\* of the index were skipped.
C12_BestFirst ==
    last.op = "search"
    => LET r == last.results
       IN  /\ \A j \in 1..Len(r) :
                  r[j].relevance_score.num * (1 + r[j].distance)
                      = r[j].relevance_score.den
           /\ \A j \in 1..(Len(r) - 1) :
                  /\ r[j].distance <= r[j + 1].distance
                  /\ r[j].relevance_score.num * r[j + 1].relevance_score.den
                         >= r[j + 1].relevance_score.num * r[j].relevance_score.den

\* search returned two results at different distances, the nearer first and
\* not in the order of the documents, and skipped a hit
C12_Witness ==
    /\ last.op = "search" /\ Len(last.results) = 2
    /\ last.results[1].distance < last.results[2].distance
    /\ Len(last.results) < Min2(last.k, Len(store.data))
    /\ last.results[1].content = store.data[2].content

\* C19 (determinism): a store that create_embeddings built, whatever it
\* held before, returns for every query and every k the list returned by a
\* new store built from the same chunk list with the same embedding model;
\* and search leaves the store as it was, so the same call made again
\* returns the list it returned.
C19_Deterministic ==
    /\ (last.op = "create_embeddings" /\ last.ret = "True")
       => LET fresh == CE_Return(CE_Build(
                           [NewStore(store.model) EXCEPT !.data = store.data], TRUE))
          IN  \A q \in Queries, k \in Ks :
                  Search(store, q, k, TRUE) = Search(fresh, q, k, TRUE)
    /\ (last.op = "search" /\ last.enc_ok)
       => last.results = Search(store, last.q, last.k, TRUE)

\* create_embeddings rebuilt a store that held an index of the same
\* dimension over other chunks (the one still on disk, the save could not
\* open the file), and a search of the rebuilt store finds every chunk
C19_Witness ==
    /\ last.op = "create_embeddings" /\ last.ret = "True"
    /\ last.save = "index_open" /\ BothValid
    /\ Val(disk.index_file.val).d = Val(store.index).d
    /\ Val(disk.index_file.val).vecs # Val(store.index).vecs
    /\ Len(store.data) > 1
    /\ \E q \in Queries : Len(Search(store, q, MaxK, TRUE)) = Len(store.data)

\* C20 (dimension mismatch is an error): when the embedding of the query
\* has another dimension than the index, search does not return a list to
\* its caller.
C20_MismatchSurfaced ==
    (/\ last.op = "search" /\ last.enc_ok /\ last.k > 0
     /\ IsSet(store.index)
     /\ store.data # <<>>
     /\ Val(store.index).d # Dim(store.model))
    => last.ret # "list"

---------------------------------------------------------------------------
(* JupiterQABot: answer_question and generate_answer                       *)

\* the questions asked; their embeddings point along the chunks' (7), the
\* other way (-2), or are the zero vector (0)
Questions == {-2, 0, 7}

\* answer_question's default top_k
TopKDefault == 5

Dot(a, b) == SumSeq([i \in 1..Len(a) |-> a[i] * b[i]])

Sgn(x) == IF x > 0 THEN 1 ELSE IF x < 0 THEN -1 ELSE 0

\* a real number sign * sqrt(num / den), and 0 when den = 0: what
\* dot / (norm(a) * norm(b) + 1e-8) is up to the 1e-8, which decides the
\* value only when a norm is 0
Root(sign, num, den) == [sign |-> sign, num |-> num, den |-> den]
Zero == Root(0, 0, 1)
One == Root(1, 1, 1)

\* cosine_similarity(a, b)
cosine_similarity(a, b) ==
    Root(Sgn(Dot(a, b)), Dot(a, b) * Dot(a, b), Dot(a, a) * Dot(b, b))

\* x > 0.0, 1.0 < x, and 0.0 <= x <= 1.0
Positive(x) == x.sign = 1 /\ x.den > 0
AboveOne(x) == Positive(x) /\ x.num > x.den
InUnit(x) == x = Zero \/ (Positive(x) /\ x.num <= x.den)

\* the clamp without its floor: min(confidence, 1.0)
ClampCeilingOnly(c) == IF AboveOne(c) THEN One ELSE c

\* line 98: max(0.0, min(confidence, 1.0))
Clamp(c) ==
    LET m == IF AboveOne(c) THEN One ELSE c
    IN  IF Positive(m) THEN m ELSE Zero

\* how a call of generate_answer can fail: the Groq request raises, or the
\* embedding model raises while encoding for the confidence
Faults == {"none", "llm", "encode"}

\* lines 39-43 of create_context_prompt: the context blocks of the prompt,
\* "Context i" with the content of result i, for the results with
\* relevance_score > 0.3
create_context_prompt(question, search_results) ==
    LET included(j) == 10 * search_results[j].relevance_score.num
                           > 3 * search_results[j].relevance_score.den
        RECURSIVE blocks(_)
        blocks(j) ==
            IF j > Len(search_results) THEN <<>>
            ELSE (IF included(j)
                  THEN <<[context |-> j, content |-> search_results[j].content]>>
                  ELSE <<>>) \o blocks(j + 1)
    IN  blocks(1)

\* SourcesUsed counting every result
SourcesUsedAll(results) == Len(results)

\* line 104: the results with relevance_score > 0.3
SourcesUsed(results) ==
    Cardinality({j \in DOMAIN results :
        10 * results[j].relevance_score.num > 3 * results[j].relevance_score.den})

\* generate_answer whose except clause still counts the sources
generate_answer_counting(question, search_results, st, with_store, fault) ==
    IF fault = "llm" \/ (fault = "encode" /\ search_results # <<>> /\ with_store)
    THEN [answer |-> "apology", confidence |-> Zero,
          sources_used |-> SourcesUsed(search_results),
          search_results |-> search_results]
    ELSE [answer |-> "text",
          confidence |->
              IF search_results # <<>> /\ with_store
              THEN Clamp(cosine_similarity(
                       Encode(st.model, question),
                       Encode(st.model, search_results[1].content)))
              ELSE Zero,
          sources_used |-> SourcesUsed(search_results),
          search_results |-> search_results]

\* generate_answer(question, search_results, vector_store); with_store is
\* FALSE when vector_store is left at its default None
generate_answer(question, search_results, st, with_store, fault) ==
    IF fault = "llm" \/ (fault = "encode" /\ search_results # <<>> /\ with_store)
    THEN [answer |-> "apology", confidence |-> Zero, sources_used |-> 0,
          search_results |-> search_results]
    ELSE [answer |-> "text",
          confidence |->
              IF search_results # <<>> /\ with_store
              THEN Clamp(cosine_similarity(
                       Encode(st.model, question),
                       Encode(st.model, search_results[1].content)))
              ELSE Zero,
          sources_used |-> SourcesUsed(search_results),
          search_results |-> search_results]

\* answer_question(question, vector_store): search_ok is whether the
\* embedding model encodes the query inside search
answer_question(question, st, k, search_ok, fault) ==
    LET search_results == Search(st, question, k, search_ok)
        response == generate_answer(question, search_results, st, TRUE, fault)
    IN  [question |-> Some(question)] @@ response

\* qa_bot.answer_question(question, vector_store) on the idle store
AnswerQuestion(question, search_ok, fault) ==
    /\ Idle
    /\ LET response == answer_question(question, store, TopKDefault, search_ok, fault)
       IN  last' = [Call("answer_question") EXCEPT
                       !.ret = "dict", !.q = question, !.enc_ok = search_ok,
                       !.fault = fault,
                       !.prompt = create_context_prompt(question,
                                                        response.search_results),
                       !.response = Some(response)]
    /\ UNCHANGED <<store, disk, persisted, others>>

\* qa_bot.generate_answer(question, results) with the results of a search
\* and no vector_store passed
GenerateAnswer(question, fault) ==
    /\ Idle
    /\ LET search_results == Search(store, question, TopKDefault, TRUE)
       IN  last' = [Call("generate_answer") EXCEPT
                       !.ret = "dict", !.q = question, !.fault = fault,
                       !.prompt = create_context_prompt(question, search_results),
                       !.response =
                           Some([question |-> None] @@
                                generate_answer(question, search_results, store,
                                                FALSE, fault))]
    /\ UNCHANGED <<store, disk, persisted, others>>

\* the store under the QA bot: its saves go through, what a failing save
\* leaves on disk makes no store the bot could not meet otherwise
NextQA ==
    \/ \E m \in Models : Construct(m)
    \/ \E path \in FilePaths : LoadDataCall(path)
    \/ \E enc_ok \in BOOLEAN : CreateEmbeddings(enc_ok, "ok")
    \/ \E question \in Questions, search_ok \in BOOLEAN, fault \in Faults :
           AnswerQuestion(question, search_ok, fault)
    \/ \E question \in Questions, fault \in Faults : GenerateAnswer(question, fault)

SpecQA == Init /\ [][NextQA]_vars

\* C13 (confidence bounds): in every response of answer_question and of
\* generate_answer, returned normally or from the except clause, confidence
\* is between 0.0 and 1.0, and it is exactly 0.0 when the search results
\* are empty.
C13_ConfidenceBounds ==
    IsSet(last.response)
    => LET response == Val(last.response)
       IN  /\ InUnit(response.confidence)
           /\ response.search_results = <<>> => response.confidence = Zero

\* answer_question answered from results whose best chunk points away from
\* the question: the negative cosine similarity came back as 0.0
C13_Witness ==
    /\ last.op = "answer_question"
    /\ Val(last.response).answer = "text"
    /\ Val(last.response).search_results # <<>>
    /\ cosine_similarity(
           Encode(store.model, Val(Val(last.response).question)),
           Encode(store.model, Val(last.response).search_results[1].content)).sign = -1
    /\ Val(last.response).confidence = Zero

---------------------------------------------------------------------------
(* JupiterScraper.semantic_chunk_text                                      *)

MaxSentences == 4

\* the defaults of similarity_threshold (0.75 = 3/4)
ThresholdNum == 3
ThresholdDen == 4

\* a sentence: its embedding, its number of words, and the keyword in it
\*   "phone"    'phone' or 'email': selects the contact branch, closes a group
\*   "support"  'contact' or 'support': selects the contact branch only
\*   "chat"     'chat' or 'hours': closes a group of the contact branch only
Sentence(emb, words, kw) == [emb |-> emb, words |-> words, kw |-> kw]

SentenceKinds ==
    {Sentence(<<1, 0>>, 12, "none"), Sentence(<<2, 1>>, 4, "none"),
     Sentence(<<0, 1>>, 12, "none"), Sentence(<<1, 1>>, 3, "none"),
     Sentence(<<1, 0>>, 7, "phone"), Sentence(<<2, 1>>, 2, "support"),
     Sentence(<<0, 1>>, 6, "chat")}

\* a text: the sentences re.split finds in it, and whether the whitespace
\* between them is one space everywhere ("single") or not ("wide")
Text(sents, gaps) == [sents |-> sents, gaps |-> gaps]

Texts ==
    {Text(sents, gaps) :
        sents \in UNION {[1..n -> SentenceKinds] : n \in 1..MaxSentences},
        gaps \in {"single", "wide"}}

MinChunkSizes == {1, 2}
MaxChunkSizes == {2, 3}

\* ' '.join(current_chunk): the sentences at the positions ps of the text,
\* one space between them
Joined(ps) == [sents |-> ps, gaps |-> "single"]

\* the text itself as a chunk
Whole(text) == [sents |-> [i \in 1..Len(text.sents) |-> i], gaps |-> text.gaps]

\* len(chunk.split())
Words(text, chunk) == SumSeq([j \in 1..Len(chunk.sents) |-> text.sents[chunk.sents[j]].words])

\* line 273: the text holds 'phone', 'email', 'contact' or 'support'
IsContactText(text) ==
    \E i \in 1..Len(text.sents) : text.sents[i].kw \in {"phone", "support"}

\* lines 284-285: the group is closed after this sentence
ClosesGroup(text, current, i) ==
    Len(current) >= 3 \/ text.sents[i].kw \in {"phone", "chat"}

\* lines 281-297: the groups of sentences the contact branch closes, before
\* its word filter
RECURSIVE ContactGroups(_, _, _, _)
ContactGroups(text, i, current, groups) ==
    IF i > Len(text.sents)
    THEN IF current # <<>> THEN Append(groups, Joined(current)) ELSE groups
    ELSE LET cur == Append(current, i)
         IN  IF ClosesGroup(text, cur, i)
             THEN ContactGroups(text, i + 1, <<>>, Append(groups, Joined(cur)))
             ELSE ContactGroups(text, i + 1, cur, groups)

\* sim < similarity_threshold, for sim = dot / (norm * norm + 1e-8)
SimBelow(a, b) ==
    LET sim == cosine_similarity(a, b)
    IN  ~(Positive(sim) /\ ThresholdDen * ThresholdDen * sim.num
                             > ThresholdNum * ThresholdNum * sim.den)

\* Breaks without the size cap
BreaksNoCap(text, current, i, max_chunk_size) ==
    SimBelow(text.sents[current[Len(current)]].emb, text.sents[i].emb)

\* Breaks with the cap one sentence late
BreaksLate(text, current, i, max_chunk_size) ==
    \/ SimBelow(text.sents[current[Len(current)]].emb, text.sents[i].emb)
    \/ Len(current) > max_chunk_size

\* line 316: sentence i closes the current chunk and starts a new one
Breaks(text, current, i, max_chunk_size) ==
    \/ SimBelow(text.sents[current[Len(current)]].emb, text.sents[i].emb)
    \/ Len(current) >= max_chunk_size

\* GreedyChunks opening each new chunk with the sentence before the break
RECURSIVE GreedyChunksOverlap(_, _, _, _, _)
GreedyChunksOverlap(text, i, current, chunks, max_chunk_size) ==
    IF i > Len(text.sents) THEN Append(chunks, Joined(current))
    ELSE IF Breaks(text, current, i, max_chunk_size)
         THEN GreedyChunksOverlap(text, i + 1, <<i - 1, i>>,
                                  Append(chunks, Joined(current)), max_chunk_size)
         ELSE GreedyChunksOverlap(text, i + 1, Append(current, i), chunks,
                                  max_chunk_size)

\* lines 307-325: the chunks of the greedy loop, before the word filter
RECURSIVE GreedyChunks(_, _, _, _, _)
GreedyChunks(text, i, current, chunks, max_chunk_size) ==
    IF i > Len(text.sents) THEN Append(chunks, Joined(current))
    ELSE IF Breaks(text, current, i, max_chunk_size)
         THEN GreedyChunks(text, i + 1, <<i>>, Append(chunks, Joined(current)),
                           max_chunk_size)
         ELSE GreedyChunks(text, i + 1, Append(current, i), chunks, max_chunk_size)

\* WordFilter keeping every chunk
WordFilterOff(text, chunks, min_words) == chunks

\* lines 289, 296, 327: the chunks of more than min_words words
WordFilter(text, chunks, min_words) ==
    SelectSeq(chunks, LAMBDA c : Words(text, c) > min_words)

\* the groups or chunks semantic_chunk_text forms before it filters them by
\* their words; none on the path that returns at line 304
Boundaries(text, min_chunk_size, max_chunk_size) ==
    IF IsContactText(text) THEN ContactGroups(text, 1, <<>>, <<>>)
    ELSE IF Len(text.sents) <= min_chunk_size THEN <<>>
    ELSE GreedyChunks(text, 2, <<1>>, <<>>, max_chunk_size)

\* semantic_chunk_text going into the greedy loop whatever the number of
\* sentences
ChunkTextNoShortcut(text, min_chunk_size, max_chunk_size) ==
    IF IsContactText(text)
    THEN LET contact_chunks == WordFilter(text, ContactGroups(text, 1, <<>>, <<>>), 5)
         IN  IF contact_chunks # <<>> THEN contact_chunks ELSE <<Whole(text)>>
    ELSE WordFilter(text, GreedyChunks(text, 2, <<1>>, <<>>, max_chunk_size), 10)

\* semantic_chunk_text(text, 0.75, min_chunk_size, max_chunk_size)
semantic_chunk_text(text, min_chunk_size, max_chunk_size) ==
    IF IsContactText(text)
    THEN LET contact_chunks ==
                 WordFilter(text, Boundaries(text, min_chunk_size, max_chunk_size), 5)
         IN  IF contact_chunks # <<>> THEN contact_chunks ELSE <<Whole(text)>>
    ELSE IF Len(text.sents) <= min_chunk_size
         THEN <<Joined(Whole(text).sents)>>
         ELSE WordFilter(text, Boundaries(text, min_chunk_size, max_chunk_size), 10)

\* the call of semantic_chunk_text a behaviour follows: its arguments, what
\* it formed, what it returned
SemanticChunkText(text, min_chunk_size, max_chunk_size) ==
    /\ ~IsSet(chunker)
    /\ chunker' = Some([text |-> text,
                        min_chunk_size |-> min_chunk_size,
                        max_chunk_size |-> max_chunk_size,
                        chunks |-> Boundaries(text, min_chunk_size, max_chunk_size),
                        result |-> semantic_chunk_text(text, min_chunk_size,
                                                       max_chunk_size)])
    /\ UNCHANGED <<store, disk, last, persisted, scraper, app>>

NextChunk ==
    /\ ~IsSet(chunker)
    /\ \E text \in Texts, min_chunk_size \in MinChunkSizes,
          max_chunk_size \in MaxChunkSizes :
           SemanticChunkText(text, min_chunk_size, max_chunk_size)

SpecChunk == Init /\ [][NextChunk]_vars

---------------------------------------------------------------------------
(* Properties of semantic_chunk_text                                       *)

\* sentences i - 1 and i of the text have similarity >= similarity_threshold
Similar(text, i) == ~SimBelow(text.sents[i - 1].emb, text.sents[i].emb)

\* the chunks cut the text into runs of consecutive sentences, the first
\* starting at sentence 0
CutsText(text, chunks) ==
    /\ chunks # <<>>
    /\ chunks[1].sents[1] = 1
    /\ chunks[Len(chunks)].sents[Len(chunks[Len(chunks)].sents)] = Len(text.sents)
    /\ \A j \in 1..Len(chunks) :
           /\ chunks[j].sents # <<>>
           /\ \A m \in 1..(Len(chunks[j].sents) - 1) :
                  chunks[j].sents[m + 1] = chunks[j].sents[m] + 1
    /\ \A j \in 1..(Len(chunks) - 1) :
           chunks[j + 1].sents[1] = chunks[j].sents[Len(chunks[j].sents)] + 1

\* the boundaries of the greedy algorithm: sentence i is in the chunk of
\* sentence i - 1 iff it is similar to it and that chunk, up to i - 1, holds
\* fewer than max_chunk_size sentences
GreedyBoundaries(text, chunks, max_chunk_size) ==
    /\ CutsText(text, chunks)
    /\ \A j \in 1..Len(chunks) : \A m \in 1..Len(chunks[j].sents) :
           LET i == chunks[j].sents[m]
           IN  i > 1 => ((m > 1) <=> (/\ Similar(text, i)
                                       /\ (IF m > 1 THEN m - 1
                                            ELSE Len(chunks[j - 1].sents))
                                              < max_chunk_size))

\* C14 (greedy boundaries): for every text of more than min_chunk_size
\* sentences, the chunks semantic_chunk_text forms before its word filter
\* are those of the greedy algorithm.
C14_GreedyBoundaries ==
    (IsSet(chunker) /\ Len(Val(chunker).text.sents) > Val(chunker).min_chunk_size)
    => GreedyBoundaries(Val(chunker).text, Val(chunker).chunks,
                        Val(chunker).max_chunk_size)

\* C14, amended: the same for every text that holds none of the keywords
\* 'phone', 'email', 'contact', 'support'.
C14_GreedyBoundariesRegular ==
    (/\ IsSet(chunker)
     /\ ~IsContactText(Val(chunker).text)
     /\ Len(Val(chunker).text.sents) > Val(chunker).min_chunk_size)
    => GreedyBoundaries(Val(chunker).text, Val(chunker).chunks,
                        Val(chunker).max_chunk_size)

\* a text of four sentences cut into three chunks: sentence 1 closed the
\* first for its similarity, sentence 3 the second for its size alone
C14_Witness ==
    /\ IsSet(chunker) /\ ~IsContactText(Val(chunker).text)
    /\ Len(Val(chunker).text.sents) = 4 /\ Val(chunker).max_chunk_size = 2
    /\ ~Similar(Val(chunker).text, 2)
    /\ Similar(Val(chunker).text, 3) /\ Similar(Val(chunker).text, 4)
    /\ Len(Val(chunker).chunks) = 3
    /\ Val(chunker).chunks[2].sents = <<2, 3>>

AllSimilar(text) == \A i \in 2..Len(text.sents) : Similar(text, i)
AllDissimilar(text) == \A i \in 2..Len(text.sents) : ~Similar(text, i)

\* C15 (chunking boundary): a text whose adjacent sentences are all similar
\* and that holds no more than max_chunk_size sentences yields exactly one
\* chunk; a text whose adjacent sentences are all dissimilar yields one
\* chunk per sentence.
C15_ChunkingBoundary ==
    IsSet(chunker)
    => LET c == Val(chunker)
           n == Len(c.text.sents)
       IN  /\ (AllSimilar(c.text) /\ n <= c.max_chunk_size) => Len(c.result) = 1
           /\ AllDissimilar(c.text)
                  => /\ Len(c.result) = n
                     /\ \A i \in 1..n : c.result[i].sents = <<i>>

\* C15, amended: for a text without contact keyword and of more than
\* min_chunk_size sentences. All similar and no more than max_chunk_size
\* sentences: one chunk, the whole text, when it has more than 10 words,
\* and no chunk otherwise. All dissimilar: one chunk for each sentence of
\* more than 10 words, in the order of the text, and none for the others.
C15_ChunkingBoundaryFiltered ==
    (/\ IsSet(chunker)
     /\ ~IsContactText(Val(chunker).text)
     /\ Len(Val(chunker).text.sents) > Val(chunker).min_chunk_size)
    => LET c == Val(chunker)
           n == Len(c.text.sents)
           all == Joined([i \in 1..n |-> i])
       IN  /\ (AllSimilar(c.text) /\ n <= c.max_chunk_size)
                  => c.result = IF Words(c.text, all) > 10 THEN <<all>> ELSE <<>>
           /\ AllDissimilar(c.text)
                  => /\ \A j \in 1..Len(c.result) :
                            /\ Len(c.result[j].sents) = 1
                            /\ c.result[j] = Joined(c.result[j].sents)
                     /\ \A j \in 1..(Len(c.result) - 1) :
                            c.result[j].sents[1] < c.result[j + 1].sents[1]
                     /\ \A i \in 1..n :
                            (\E j \in 1..Len(c.result) : c.result[j].sents = <<i>>)
                                <=> c.text.sents[i].words > 10

\* three sentences, each dissimilar to the next, the middle one short: two
\* chunks came back
C15_Witness ==
    /\ IsSet(chunker) /\ ~IsContactText(Val(chunker).text)
    /\ Len(Val(chunker).text.sents) = 3
    /\ AllDissimilar(Val(chunker).text)
    /\ Val(chunker).text.sents[2].words <= 10
    /\ Len(Val(chunker).result) = 2

\* C16 (short texts): a text of at most min_chunk_size sentences comes back
\* as exactly one chunk that holds all of it.
C16_ShortTextWhole ==
    (IsSet(chunker) /\ Len(Val(chunker).text.sents) <= Val(chunker).min_chunk_size)
    => /\ Len(Val(chunker).result) = 1
       /\ Val(chunker).result[1].sents = Whole(Val(chunker).text).sents

\* C16, amended: a text of at most min_chunk_size sentences that holds no
\* contact keyword comes back as exactly one chunk, its sentences joined by
\* single spaces.
C16_ShortTextWholeRegular ==
    (/\ IsSet(chunker)
     /\ ~IsContactText(Val(chunker).text)
     /\ Len(Val(chunker).text.sents) <= Val(chunker).min_chunk_size)
    => Val(chunker).result = <<Joined(Whole(Val(chunker).text).sents)>>

\* two dissimilar sentences of ten words or fewer together, separated by
\* more than a space, came back as one chunk
C16_Witness ==
    /\ IsSet(chunker) /\ ~IsContactText(Val(chunker).text)
    /\ Len(Val(chunker).text.sents) = 2 /\ Val(chunker).min_chunk_size = 2
    /\ ~Similar(Val(chunker).text, 2)
    /\ Val(chunker).text.gaps = "wide"
    /\ Len(Val(chunker).result) = 1
    /\ Words(Val(chunker).text, Val(chunker).result[1]) <= 10

\* C17 (chunk bounds): every chunk returned has more than 10 words and at
\* most max_chunk_size sentences.
C17_ChunkBounds ==
    IsSet(chunker)
    => \A j \in 1..Len(Val(chunker).result) :
           /\ Words(Val(chunker).text, Val(chunker).result[j]) > 10
           /\ Len(Val(chunker).result[j].sents) <= Val(chunker).max_chunk_size

\* C17, amended: every chunk returned for a text without contact keyword
\* has at most max_chunk_size sentences (min_chunk_size <= max_chunk_size
\* given), and more than 10 words when the text has more than
\* min_chunk_size sentences; every chunk returned for a text with a contact
\* keyword has at most 3 sentences and more than 5 words, or is the text.
C17_ChunkBoundsByBranch ==
    IsSet(chunker)
    => LET c == Val(chunker)
       IN  \A j \in 1..Len(c.result) :
               IF IsContactText(c.text)
               THEN \/ c.result = <<Whole(c.text)>>
                    \/ /\ Len(c.result[j].sents) <= 3
                       /\ Words(c.text, c.result[j]) > 5
               ELSE /\ Len(c.result[j].sents) <= c.max_chunk_size
                    /\ Len(c.text.sents) > c.min_chunk_size
                           => Words(c.text, c.result[j]) > 10

\* a text without contact keyword whose first max_chunk_size sentences came
\* back as a chunk, the cap having closed it, while a shorter chunk was
\* dropped
C17_Witness ==
    /\ IsSet(chunker) /\ ~IsContactText(Val(chunker).text)
    /\ Len(Val(chunker).text.sents) = 4 /\ Val(chunker).max_chunk_size = 3
    /\ AllSimilar(Val(chunker).text)
    /\ Len(Val(chunker).chunks) = 2
    /\ Val(chunker).result = <<Joined(<<1, 2, 3>>)>>

---------------------------------------------------------------------------
(* JupiterScraper: scrape_jupiter_pages and prepare_data_for_embedding     *)

\* the most pages scraped_data holds
MaxScraped == 4

\* the defaults of min_chunk_size and max_chunk_size
DefaultMinChunkSize == 2
DefaultMaxChunkSize == 8

\* pages_to_scrape, in the order of the list: a product page and the
\* contact page
PagesToScrape == <<"u1", "u2">>

\* the order of the urls as strings
UrlRank(url) == CHOOSE i \in DOMAIN PagesToScrape : PagesToScrape[i] = url

\* line 89, for the titles of these pages
IsContactPage(url) == url = "u2"

\* what a page's content can be: two sentences apart and a third with the
\* second (two chunks), three short similar sentences (no chunk), and a
\* text with contact keywords (two chunks)
PageTexts ==
    {Text(<<Sentence(<<1, 0>>, 12, "none"), Sentence(<<0, 1>>, 12, "none"),
            Sentence(<<0, 1>>, 12, "none")>>, "single"),
     Text(<<Sentence(<<1, 1>>, 3, "none"), Sentence(<<2, 1>>, 4, "none"),
            Sentence(<<1, 1>>, 3, "none")>>, "single"),
     Text(<<Sentence(<<1, 0>>, 7, "phone"), Sentence(<<1, 0>>, 12, "none"),
            Sentence(<<0, 1>>, 6, "chat")>>, "single")}

\* get_page_content(url): None when the request fails or the page is empty
Fetches == {None} \cup {Some(text) : text \in PageTexts}

\* lines 236-242: the pages one run of the loop appends, fetched[i] being
\* what get_page_content returned for pages_to_scrape[i]
RECURSIVE Scraped(_, _)
Scraped(fetched, i) ==
    IF i > Len(PagesToScrape) THEN <<>>
    ELSE (IF IsSet(fetched[i])
          THEN <<[url |-> PagesToScrape[i], content |-> Val(fetched[i]),
                  is_contact_page |-> IsContactPage(PagesToScrape[i])]>>
          ELSE <<>>) \o Scraped(fetched, i + 1)

\* lines 336-344: the records of one page
PageRecords(page) ==
    LET chunks == semantic_chunk_text(page.content, DefaultMinChunkSize,
                                      DefaultMaxChunkSize)
    IN  [j \in 1..Len(chunks) |->
            [id |-> page.url \o "_" \o ToString(j - 1),
             url |-> page.url,
             content |-> [m \in 1..Len(chunks[j].sents) |->
                             page.content.sents[chunks[j].sents[m]]],
             chunk_id |-> j - 1,
             is_contact |-> page.is_contact_page]]

\* lines 333-344: the records of all pages, in the order of scraped_data
RECURSIVE Records(_)
Records(pages) ==
    IF pages = <<>> THEN <<>>
    ELSE PageRecords(Head(pages)) \o Records(Tail(pages))

\* line 347: the sort key (not is_contact, url, chunk_id) of a is not
\* above that of b
KeyLeq(a, b) ==
    LET ka == <<IF a.is_contact THEN 0 ELSE 1, UrlRank(a.url), a.chunk_id>>
        kb == <<IF b.is_contact THEN 0 ELSE 1, UrlRank(b.url), b.chunk_id>>
    IN  \/ ka[1] < kb[1]
        \/ ka[1] = kb[1] /\ ka[2] < kb[2]
        \/ ka[1] = kb[1] /\ ka[2] = kb[2] /\ ka[3] <= kb[3]

\* list.sort is stable: a record goes behind those whose key is not above
\* its own
RECURSIVE SortByKey(_)
SortByKey(recs) ==
    IF recs = <<>> THEN <<>>
    ELSE LET r == recs[Len(recs)]
             front == SortByKey(SubSeq(recs, 1, Len(recs) - 1))
         IN  SelectSeq(front, LAMBDA x : KeyLeq(x, r)) \o <<r>>
                 \o SelectSeq(front, LAMBDA x : ~KeyLeq(x, r))

\* prepare_data_for_embedding()
prepare_data_for_embedding(pages) == SortByKey(Records(pages))

\* JupiterScraper()
NewScraper ==
    /\ ~IsSet(scraper)
    /\ scraper' = Some([scraped_data |-> <<>>, prepared_data |-> None])
    /\ UNCHANGED <<store, disk, last, persisted, chunker, app>>

\* scrape_jupiter_pages(): appends to scraped_data what it fetched
ScrapeJupiterPages(fetched) ==
    /\ IsSet(scraper)
    /\ Len(Val(scraper).scraped_data) + Len(PagesToScrape) <= MaxScraped
    /\ scraper' = Some([Val(scraper) EXCEPT
                        !.scraped_data = @ \o Scraped(fetched, 1)])
    /\ UNCHANGED <<store, disk, last, persisted, chunker, app>>

\* prepare_data_for_embedding(); prepared_data is what it returned
PrepareDataForEmbedding ==
    /\ IsSet(scraper)
    /\ scraper' = Some([Val(scraper) EXCEPT
                        !.prepared_data =
                            Some(prepare_data_for_embedding(Val(scraper).scraped_data))])
    /\ UNCHANGED <<store, disk, last, persisted, chunker, app>>

NextPrep ==
    \/ NewScraper
    \/ \E fetched \in [DOMAIN PagesToScrape -> Fetches] : ScrapeJupiterPages(fetched)
    \/ PrepareDataForEmbedding

SpecPrep == Init /\ [][NextPrep]_vars

\* C18 (ids and ordinals): in the records prepare_data_for_embedding
\* returns, the ids are pairwise distinct, and the records of each source
\* document carry the chunk_id values 0..n-1 in the order the chunker
\* returned the chunks.
C18_DistinctIds ==
    (IsSet(scraper) /\ IsSet(Val(scraper).prepared_data))
    => LET recs == Val(Val(scraper).prepared_data)
           pages == Val(scraper).scraped_data
       IN  (recs = prepare_data_for_embedding(pages))
           => /\ \A a, b \in DOMAIN recs : a # b => recs[a].id # recs[b].id
              /\ \A k \in DOMAIN pages :
                     SelectSeq(recs, LAMBDA r : r.url = pages[k].url)
                         = PageRecords(pages[k])

---------------------------------------------------------------------------
(* Further properties of the vector store                                  *)

\* C21 (stale positions are skipped): when index.search answered, search
\* returns a list holding, in the order of the hits, one result for every
\* hit whose position is that of a loaded chunk, and none for a hit at -1
\* or at a position >= len(data).
C21_StaleSkipped ==
    (/\ last.op = "search" /\ ~last.caught
     /\ IsSet(store.index) /\ store.data # <<>>)
    => LET hits == FaissSearch(Val(store.index), Encode(store.model, last.q),
                               Min2(last.k, Len(store.data)))
           ok == {j \in DOMAIN hits : hits[j].idx \in 0..(Len(store.data) - 1)}
       IN  /\ last.ret = "list"
           /\ Len(last.results) = Cardinality(ok)
           /\ \A j \in ok :
                  LET r == last.results[Cardinality({i \in ok : i <= j})]
                  IN  /\ r.content = store.data[hits[j].idx + 1].content
                      /\ r.metadata = MetadataOf(store.data[hits[j].idx + 1])
                      /\ r.distance = hits[j].dist

\* the nearest vector of the index lies at a position beyond the loaded
\* chunks; search returned the hit that follows it
C21_Witness ==
    /\ last.op = "search" /\ ~last.caught
    /\ IsSet(store.index) /\ store.data # <<>>
    /\ LET hits == FaissSearch(Val(store.index), Encode(store.model, last.q),
                               Min2(last.k, Len(store.data)))
       IN  /\ Len(hits) >= 2
           /\ hits[1].idx >= Len(store.data)
           /\ hits[2].idx \in 0..(Len(store.data) - 1)
    /\ Len(last.results) = 1

\* C22 (embedding failure inside search): a search in which the embedding
\* model raises returns the empty list, as a list, and leaves index,
\* id_map and data as they were.
C22_EncodeFailureCaught ==
    [][(last'.op = "search" /\ ~last'.enc_ok)
       => /\ last'.results = <<>>
          /\ last'.ret = "list"
          /\ store'.index = store.index
          /\ store'.id_map = store.id_map
          /\ store'.data = store.data]_vars

\* the embedding model raised inside a search of a store that holds an
\* index of its own model over its chunks; the next query finds them
C22_Witness ==
    /\ last.op = "search" /\ ~last.enc_ok /\ last.caught
    /\ last.results = <<>>
    /\ Len(store.data) > 1
    /\ \E q \in Queries : Len(Search(store, q, MaxK, TRUE)) = Len(store.data)

\* C23 (wholesale replacement): right after every create_embeddings that
\* returned True, the index holds the embeddings of the current data, one
\* vector per chunk and nothing else, and id_map is the ids of the current
\* data in order.
C23_WholesaleReplace ==
    (last.op = "create_embeddings" /\ last.ret = "True")
    => /\ IsSet(store.index)
       /\ ntotal(Val(store.index)) = Len(store.data)
       /\ Val(store.index).vecs = EncodeAll(store.model, TextsOf(store.data))
       /\ store.id_map = IdsOf(store.data)

\* a rebuild over fewer chunks than the build before it, whose manifest is
\* still the one on disk because the save could not open the index file
C23_Witness ==
    /\ last.op = "create_embeddings" /\ last.ret = "True"
    /\ last.save = "index_open" /\ BothValid
    /\ Len(Val(disk.meta_file.val).id_map) > Len(store.id_map)
    /\ ntotal(Val(disk.index_file.val)) > ntotal(Val(store.index))

---------------------------------------------------------------------------
(* Further properties of semantic_chunk_text and of the QA bot             *)

\* C24 (reading order): the sentences of the chunks semantic_chunk_text
\* returns, read chunk by chunk, are sentences of the text at strictly
\* increasing positions: a subsequence of the text, no sentence twice.
C24_ReadingOrder ==
    IsSet(chunker)
    => LET c == Val(chunker)
       IN  /\ \A j \in 1..Len(c.result) :
                  /\ c.result[j].sents # <<>>
                  /\ \A m \in 1..Len(c.result[j].sents) :
                         c.result[j].sents[m] \in 1..Len(c.text.sents)
                  /\ \A m \in 1..(Len(c.result[j].sents) - 1) :
                         c.result[j].sents[m] < c.result[j].sents[m + 1]
           /\ \A j \in 1..(Len(c.result) - 1) :
                  c.result[j].sents[Len(c.result[j].sents)] < c.result[j + 1].sents[1]

\* two chunks came back from a text of four sentences, a sentence between
\* them dropped, the second chunk holding two sentences
C24_Witness ==
    /\ IsSet(chunker) /\ ~IsContactText(Val(chunker).text)
    /\ Len(Val(chunker).text.sents) = 4
    /\ Len(Val(chunker).chunks) = 3
    /\ Len(Val(chunker).result) = 2
    /\ Val(chunker).result[1].sents = <<1>>
    /\ Val(chunker).result[2].sents = <<3, 4>>

\* C25 (generate_answer never raises): every call of generate_answer and of
\* answer_question returns a dictionary with answer, confidence,
\* sources_used and search_results, the list given to generate_answer;
\* when the LLM call or the embedding for the confidence failed, the answer
\* is the apology, confidence 0.0 and sources_used 0; answer_question adds
\* the question.
C25_NeverRaises ==
    last.op \in {"answer_question", "generate_answer"}
    => LET r == Val(last.response)
           given == Search(store, last.q, TopKDefault, last.enc_ok)
           failed == \/ last.fault = "llm"
                     \/ /\ last.fault = "encode" /\ given # <<>>
                        /\ last.op = "answer_question"
       IN  /\ last.ret = "dict"
           /\ DOMAIN r = {"question", "answer", "confidence", "sources_used",
                          "search_results"}
           /\ r.search_results = given
           /\ r.answer = IF failed THEN "apology" ELSE "text"
           /\ failed => (r.confidence = Zero /\ r.sources_used = 0)
           /\ last.op = "answer_question" => r.question = Some(last.q)

\* answer_question found chunks above the relevance threshold, then the
\* embedding model raised while the confidence was computed
C25_Witness ==
    /\ last.op = "answer_question" /\ last.fault = "encode" /\ last.enc_ok
    /\ Val(last.response).answer = "apology"
    /\ Len(Val(last.response).search_results) > 1
    /\ last.prompt # <<>>

\* C26 (sources used): when generate_answer returns normally, sources_used
\* is the number of results with relevance_score > 0.3, which is the number
\* of context blocks in the prompt, and at most len(search_results).
C26_SourcesUsed ==
    (/\ last.op \in {"answer_question", "generate_answer"}
     /\ Val(last.response).answer = "text")
    => LET r == Val(last.response)
           relevant == {j \in DOMAIN r.search_results :
                           3 * (1 + r.search_results[j].distance) < 10}
       IN  /\ r.sources_used = Cardinality(relevant)
           /\ r.sources_used = Len(last.prompt)
           /\ \A b \in 1..Len(last.prompt) : last.prompt[b].context \in relevant
           /\ r.sources_used <= Len(r.search_results)

\* an answer from three results of which one is above the threshold
C26_Witness ==
    /\ last.op = "answer_question"
    /\ Val(last.response).answer = "text"
    /\ Len(Val(last.response).search_results) = 3
    /\ Val(last.response).sources_used = 1
    /\ Len(last.prompt) = 1

\* ---------------------------------------------------------------------------
\* The chat app (app.py).  Streamlit runs the script from top to bottom once
\* per user event; st.session_state survives from one run to the next.  A run
\* is two steps here: the initialisation block of the sidebar, then the rest of
\* the script, so that `initialized` can be read at the moment a question is
\* handled.  input_key only gives the text box a new widget key and is left
\* out; a chat_history entry is the response, kept as the question it answers.
\* ---------------------------------------------------------------------------

\* the longest chat history explored
MaxHistory == 3

\* what the user may have in the text box when Send is clicked
TypedInputs == {"", "q1", " q1 ", "q2"}

\* the sample questions of the sidebar
SampleQuestions == {"q1", "q3"}

\* str.strip() on the inputs above
Strip(t) == CASE t = " q1 " -> "q1" [] OTHER -> t

\* one script run is started by one user event
Events ==
    [kind : {"send"}, text : TypedInputs]
    \cup [kind : {"sample"}, text : SampleQuestions]
    \cup [kind : {"rerun", "refresh", "clear_cache", "clear_chat", "new_question"},
          text : {""}]

\* how the initialisation of lines 272-291 can end
InitOutcomes == {"ok", "store_fails", "embeddings_fail", "bot_fails"}

\* lines 272-291: runs only while initialized is false; initialized becomes
\* true only if the store, the embeddings and the bot all succeed
InitBlock(a, outcome) ==
    IF a.initialized THEN a
    ELSE [a EXCEPT !.vector_store = (outcome # "store_fails"),
                   !.initialized = (outcome = "ok")]

\* lines 421 and 440 taken without the comparison with the last processed
\* question
IsNewQuestionAlways(a, q) == TRUE

\* lines 421 and 440: the question differs from the last processed one
IsNewQuestion(a, q) == q # a.last_processed_question

\* lines 422-435 and 441-456: the question is answered and appended, unless
\* the app is not initialized or answering raises
Process(a, q, qa_ok) ==
    IF ~a.initialized THEN [a EXCEPT !.outcome = "not_ready"]
    ELSE IF ~qa_ok THEN [a EXCEPT !.outcome = "error"]
    ELSE [a EXCEPT !.chat_history = Append(@, q),
                   !.last_processed_question = q,
                   !.outcome = "processed"]

\* lines 437-460: the sample question path; current_question was deleted at
\* lines 406-407, so current_q is read as ''
SamplePath(a, qa_ok) ==
    IF ~a.question_submitted THEN a
    ELSE LET current_q == IF IsSet(a.current_question)
                            THEN Val(a.current_question) ELSE ""
             done == IF current_q # "" /\ IsNewQuestion(a, current_q)
                       THEN Process(a, current_q, qa_ok)
                       ELSE [a EXCEPT !.outcome = "sample_ignored"]
         IN  [done EXCEPT !.question_submitted = FALSE,
                          !.current_question = None]

\* lines 398-435: the text box (which consumes current_question), then the
\* Send button
ChatTab(a, ev, qa_ok) ==
    LET a1 == [a EXCEPT !.current_question = None]
        q  == Strip(ev.text)
    IN  IF ev.kind = "new_question" THEN a1
        ELSE IF ev.kind = "send" /\ q # ""
          THEN IF IsNewQuestion(a1, q)
                 THEN LET a2 == Process(a1, q, qa_ok)
                      IN  IF a2.outcome = "processed" THEN a2
                          ELSE SamplePath(a2, qa_ok)
                 ELSE SamplePath([a1 EXCEPT !.outcome = "duplicate"], qa_ok)
          ELSE SamplePath(a1, qa_ok)

\* lines 311-345 then the chat tab: the script after the initialisation block
Script(a, ev, qa_ok) ==
    LET a0 == [a EXCEPT !.outcome = "none"]
    IN  IF ev.kind \in {"refresh", "clear_cache"}
          THEN IF a0.vector_store
                 THEN [a0 EXCEPT !.initialized = FALSE, !.outcome = "reset"]
                 ELSE ChatTab(a0, ev, qa_ok)
        ELSE IF ev.kind = "sample"
          THEN ChatTab([a0 EXCEPT !.current_question = Some(ev.text),
                                  !.question_submitted = TRUE], ev, qa_ok)
        ELSE IF ev.kind = "clear_chat"
          THEN [a0 EXCEPT !.chat_history = <<>>,
                          !.last_processed_question = "",
                          !.outcome = "cleared"]
        ELSE ChatTab(a0, ev, qa_ok)

\* a user event starts a run, which first goes through lines 272-291
BeginRun(ev, outcome) ==
    /\ app.pc = "top"
    /\ ev.kind = "send" => Len(app.chat_history) < MaxHistory
    /\ app.initialized => outcome = "ok"
    /\ app' = [InitBlock(app, outcome) EXCEPT !.pc = "body", !.event = ev]
    /\ UNCHANGED <<store, disk, last, persisted, chunker, scraper>>

\* the rest of the run
FinishRun(qa_ok) ==
    /\ app.pc = "body"
    /\ app' = [Script(app, app.event, qa_ok) EXCEPT !.pc = "top"]
    /\ UNCHANGED <<store, disk, last, persisted, chunker, scraper>>

NextApp ==
    \/ \E ev \in Events, outcome \in InitOutcomes : BeginRun(ev, outcome)
    \/ \E qa_ok \in BOOLEAN : FinishRun(qa_ok)

SpecApp == Init /\ [][NextApp]_vars

\* a step that answers a question: the app is initialized, the question is not
\* the last processed one, exactly one entry is appended and the question
\* becomes the last processed one
Processed ==
    /\ app.initialized
    /\ \E q \in {Strip(t) : t \in TypedInputs} \cup SampleQuestions :
         /\ q # app.last_processed_question
         /\ app'.chat_history = Append(app.chat_history, q)
         /\ app'.last_processed_question = q

\* the step of a run whose Send click repeats the last processed question
RepeatedSend ==
    /\ app.pc = "body"
    /\ app.event.kind = "send"
    /\ Strip(app.event.text) # ""
    /\ Strip(app.event.text) = app.last_processed_question

\* the step of a run whose event is the Clear Chat History button, which
\* empties the history and resets last_processed_question
Cleared ==
    /\ app.pc = "body"
    /\ app.event.kind = "clear_chat"
    /\ app'.chat_history = <<>>
    /\ app'.last_processed_question = ""

\* C27 as stated: chat_history gains an entry only by a processed question
\* (the app initialized, the stripped question not the last processed one, one
\* entry appended, last_processed_question set to it), the same question sent
\* twice in a row adds one entry, and chat_history never changes while
\* initialized is false
C27_ProcessedOnly ==
    [][/\ Len(app'.chat_history) > Len(app.chat_history) => Processed
       /\ RepeatedSend => app'.chat_history = app.chat_history
       /\ ~app.initialized => app'.chat_history = app.chat_history]_vars

\* C27, amended: chat_history gains an entry only by a processed question (the
\* app initialized, the stripped question not the last processed one, one entry
\* appended, last_processed_question set to it), the same question sent twice
\* in a row adds one entry, and while initialized is false chat_history never
\* gains an entry: it changes only by Clear Chat History, which empties it and
\* resets last_processed_question whether or not the app is initialized
C27_ProcessedOrCleared ==
    [][/\ app'.chat_history # app.chat_history => Processed \/ Cleared
       /\ RepeatedSend => app'.chat_history = app.chat_history
       /\ ~app.initialized =>
            app'.chat_history = app.chat_history \/ Cleared]_vars

\* a question was answered, then sent again at once and skipped, and the
\* history holds two answers
C27_Witness ==
    /\ app.pc = "top"
    /\ app.outcome = "duplicate"
    /\ app.initialized
    /\ Len(app.chat_history) = 2
    /\ Strip(app.event.text) = app.chat_history[2]

\* C28 (get_stats self-consistent): in what get_stats returns, embeddings_exist
\* true means total_documents equals index_size, and embeddings_exist false
\* means index_size is 0 and embedding_dimensions is None.
C28_StatsConsistent ==
    (last.op = "get_stats" /\ IsSet(last.stats))
    => LET stats == Val(last.stats)
       IN  /\ stats.embeddings_exist
                => stats.total_documents = stats.index_size
           /\ ~stats.embeddings_exist
                => (stats.index_size = 0 /\ stats.embedding_dimensions = None)

====
